---- MODULE Spec2Model ----
(***************************************************************************)
(* The two CSV conversion scripts of hebrew-transliteration:               *)
(*   "ts"  = src/scripts/transliterate_csv.ts                              *)
(*   "mjs" = src/unnamed/part_000 (the variant with --debug/--skip-errors  *)
(*           and the interactive prompt)                                   *)
(* A string is a sequence of symbols.  A symbol is one character, except   *)
(* "vocalized", "VOCALIZED" and "tiberian", which stand for those words    *)
(* as one unit each.                                                       *)
(***************************************************************************)
EXTENDS Integers, Sequences, FiniteSets, TLC

\* ------------------------------------------------------------------ bounds
\* Size of the input file read by one run: each line costs its length plus
\* its line break.
MaxInputLen == 6
\* Fields per row and symbols per field of the join/parse round trip.
MaxCells == 2
MaxCellLen == 2
\* Symbols of a field handed to the offending-token search.
MaxHebLen == 4

\* ----------------------------------------------------------------- symbols
BOM == "BOM"
Delimiter == "|"
Quote == "\""
CR == "CR"
Vocalized == <<"vocalized">>
Tiberian == <<"tiberian">>

\* Symbols of the input file of a run (readline never yields CR or LF).
Alphabet == {"vocalized", "VOCALIZED", "|", " ", "h", "x", BOM}
\* Symbols of the round trip: the delimiter, the quote, another character.
CsvAlphabet == {"|", Quote, "a"}
\* Symbols of the offending-token search: letters, whitespace, hyphen.
HebAlphabet == {"h", "x", " ", "-"}

StringsUpTo(S, n) == UNION {[1..k -> S] : k \in 0..n}

\* -------------------------------------------------------- string helpers
Includes(s, c) == \E i \in 1..Len(s) : s[i] = c

\* rawLine.replace(/\uFEFF/g, "")
RECURSIVE StripBOM(_)
StripBOM(s) ==
    IF s = <<>> THEN <<>>
    ELSE IF Head(s) = BOM THEN StripBOM(Tail(s))
    ELSE <<Head(s)>> \o StripBOM(Tail(s))

\* JavaScript white space as seen by trim() and \s (U+FEFF included).
IsSpace(c) == c \in {" ", BOM}

RECURSIVE TrimStart(_)
TrimStart(s) ==
    IF s # <<>> /\ IsSpace(Head(s)) THEN TrimStart(Tail(s)) ELSE s

RECURSIVE TrimEnd(_)
TrimEnd(s) ==
    IF s # <<>> /\ IsSpace(s[Len(s)]) THEN TrimEnd(SubSeq(s, 1, Len(s) - 1)) ELSE s

\* String.prototype.trim()
Trim(s) == TrimEnd(TrimStart(s))

LowerOf(c) ==
    CASE c = "Y" -> "y"
      [] c = "E" -> "e"
      [] c = "S" -> "s"
      [] c = "N" -> "n"
      [] OTHER -> c

\* String.prototype.toLowerCase()
ToLowerCase(s) == [i \in 1..Len(s) |-> LowerOf(s[i])]

\* line.replace(/\r?$/, "")
StripCR(s) ==
    IF s # <<>> /\ s[Len(s)] = CR THEN SubSeq(s, 1, Len(s) - 1) ELSE s

\* String.prototype.split(delimiter): always at least one piece.
RECURSIVE Split(_)
Split(s) ==
    IF ~Includes(s, Delimiter) THEN <<s>>
    ELSE LET i == CHOOSE k \in 1..Len(s) :
                      s[k] = Delimiter /\ \A j \in 1..(k - 1) : s[j] # Delimiter
         IN  <<SubSeq(s, 1, i - 1)>> \o Split(SubSeq(s, i + 1, Len(s)))

\* Array.prototype.join(delimiter)
RECURSIVE Join(_)
Join(cs) ==
    IF cs = <<>> THEN <<>>
    ELSE IF Len(cs) = 1 THEN cs[1]
    ELSE cs[1] \o <<Delimiter>> \o Join(Tail(cs))

\* c.replace(/"/g, '""')
RECURSIVE DoubleQuotes(_)
DoubleQuotes(s) ==
    IF s = <<>> THEN <<>>
    ELSE IF Head(s) = Quote THEN <<Quote, Quote>> \o DoubleQuotes(Tail(s))
    ELSE <<Head(s)>> \o DoubleQuotes(Tail(s))

\* Array.prototype.indexOf, 1-based; 0 stands for -1.
IndexOf(cs, c) ==
    IF \E i \in 1..Len(cs) : cs[i] = c
    THEN CHOOSE i \in 1..Len(cs) : cs[i] = c /\ \A j \in 1..(i - 1) : cs[j] # c
    ELSE 0

\* ------------------------------------------------------- the CSV functions
parseCsvLine(line) == Split(StripCR(line))

QuoteCell(c) ==
    IF Includes(c, Delimiter) THEN <<Quote>> \o DoubleQuotes(c) \o <<Quote>> ELSE c

joinCsvLine(cs) == Join([i \in 1..Len(cs) |-> QuoteCell(cs[i])])

\* Mutant: a row is cut to the header's length as well as padded to it.
RECURSIVE PadCellsToHeader(_, _)
PadCellsToHeader(cs, n) ==
    IF Len(cs) < n THEN PadCellsToHeader(Append(cs, <<>>), n)
    ELSE SubSeq(cs, 1, n)

\* while (cells.length < headerCells.length) cells.push("")
RECURSIVE PadCells(_, _)
PadCells(cs, n) == IF Len(cs) < n THEN PadCells(Append(cs, <<>>), n) ELSE cs

\* ------------------------------------------- the transliteration capability
\* The library is a black box with the contract
\*   transliterate(text, schema) -> text | fails(invalid input).
\* Here it rejects any text holding the symbol "x", and any text that begins
\* with a separator (so a field can fail although each of its tokens passes).
Rejects(text) ==
    \/ Includes(text, "x")
    \/ text # <<>> /\ text[1] \in {" ", "-"}

Latin(c) == IF c = "h" THEN "H" ELSE c

transliterate(text) == [i \in 1..Len(text) |-> Latin(text[i])]

\* ------------------------------------------------- offending-token search
\* The class [\s\u05BE\-\u2010-\u2015]: white space, maqaf, hyphens, dashes.
IsSeparator(c) == IsSpace(c) \/ c = "-"

\* heb.split(/([\s\u05BE\-\u2010-\u2015]+)/u).filter(Boolean): the maximal
\* runs of separators and of other symbols, in order, empty pieces dropped.
RunLen(s) ==
    LET same(k) == \A j \in 1..k : IsSeparator(s[j]) = IsSeparator(s[1])
    IN  CHOOSE k \in 1..Len(s) : same(k) /\ (k = Len(s) \/ ~same(k + 1))

RECURSIVE Tokens(_)
Tokens(s) ==
    IF s = <<>> THEN <<>>
    ELSE <<SubSeq(s, 1, RunLen(s))>> \o Tokens(SubSeq(s, RunLen(s) + 1, Len(s)))

\* /^[\s\u05BE\-\u2010-\u2015]+$/.test(tok)
PureSeparator(tok) == tok # <<>> /\ \A i \in 1..Len(tok) : IsSeparator(tok[i])

\* Mutant: the loop without its `continue` for pure separators.
RECURSIVE FirstRejectedNoSkip(_)
FirstRejectedNoSkip(toks) ==
    IF toks = <<>> THEN <<>>
    ELSE IF Rejects(Head(toks)) THEN Head(toks)
    ELSE FirstRejectedNoSkip(Tail(toks))

\* The for loop of findOffendingWord over the remaining tokens; <<>> is null.
RECURSIVE FirstRejected(_)
FirstRejected(toks) ==
    IF toks = <<>> THEN <<>>
    ELSE IF PureSeparator(Head(toks)) THEN FirstRejected(Tail(toks))
    ELSE IF Rejects(Head(toks)) THEN Head(toks)
    ELSE FirstRejected(Tail(toks))

findOffendingWord(heb) == FirstRejected(Tokens(heb))

\* -------------------------------------------------------------- the state
VARIABLES
    script,          \* which script runs: "ts" or "mjs"
    skipErrors,      \* process.argv.includes("--skip-errors")
    debug,           \* process.argv.includes("--debug")
    pc,              \* where the process is
    input,           \* the raw lines readline has delivered so far
    output,          \* the lines written to outputStream
    headerProcessed,
    vocalizedIdx,    \* 1-based; 0 stands for -1
    headerCells,
    lineNumber,
    cells,           \* the row held while the prompt is pending
    exitCode,        \* the exit status the process ends with
    statusLine,      \* the final console line
    errors,          \* per-row diagnostics written to the error channel
    offending,       \* the token of the last "Offending token:" line, or <<>>
    opened,          \* how often each channel was opened
    rlState,         \* the input stream and its readline interface
    outState,        \* outputStream
    promptState,     \* the readline interface of promptToContinue
    answers,         \* operator answers read
    answer,          \* the last of them
    csvPc, csvCells, csvLine, csvBack,    \* the join/parse round trip
    tokPc, tokHeb, tokWord                \* the offending-token search

runVars == <<script, skipErrors, debug, pc, input, output, headerProcessed,
             vocalizedIdx, headerCells, lineNumber, cells, exitCode, statusLine,
             errors, offending, opened, rlState, outState, promptState, answers,
             answer>>
csvVars == <<csvPc, csvCells, csvLine, csvBack>>
tokVars == <<tokPc, tokHeb, tokWord>>
vars == <<runVars, csvVars, tokVars>>

InitRun ==
    /\ script \in {"ts", "mjs"}
    \* the flags are read by the mjs script only
    /\ skipErrors \in (IF script = "mjs" THEN BOOLEAN ELSE {FALSE})
    /\ debug \in (IF script = "mjs" THEN BOOLEAN ELSE {FALSE})
    /\ pc = "start"
    /\ input = <<>>
    /\ output = <<>>
    /\ headerProcessed = FALSE
    /\ vocalizedIdx = 0
    /\ headerCells = <<>>
    /\ lineNumber = 0
    /\ cells = <<>>
    /\ exitCode = 0
    /\ statusLine = "none"
    /\ errors = 0
    /\ offending = <<>>
    /\ opened = [in |-> 0, out |-> 0, prompt |-> 0]
    /\ rlState = "unopened"
    /\ outState = "unopened"
    /\ promptState = "unopened"
    /\ answers = 0
    /\ answer = <<>>

IdleRun ==
    /\ script = "mjs" /\ skipErrors = FALSE /\ debug = FALSE
    /\ pc = "idle"
    /\ input = <<>>
    /\ output = <<>>
    /\ headerProcessed = FALSE
    /\ vocalizedIdx = 0
    /\ headerCells = <<>>
    /\ lineNumber = 0
    /\ cells = <<>>
    /\ exitCode = 0
    /\ statusLine = "none"
    /\ errors = 0
    /\ offending = <<>>
    /\ opened = [in |-> 0, out |-> 0, prompt |-> 0]
    /\ rlState = "unopened"
    /\ outState = "unopened"
    /\ promptState = "unopened"
    /\ answers = 0
    /\ answer = <<>>

IdleCsv == csvPc = "idle" /\ csvCells = <<>> /\ csvLine = <<>> /\ csvBack = <<>>
IdleTok == tokPc = "idle" /\ tokHeb = <<>> /\ tokWord = <<>>

Init == InitRun /\ IdleCsv /\ IdleTok

\* ------------------------------------------------------------ the run
RECURSIVE Cost(_)
Cost(ls) == IF ls = <<>> THEN 0 ELSE Len(Head(ls)) + 1 + Cost(Tail(ls))

\* The lines the input file can still deliver.
NextLines ==
    IF Cost(input) + 1 > MaxInputLen THEN {}
    ELSE StringsUpTo(Alphabet, MaxInputLen - Cost(input) - 1)

\* fs.existsSync, createReadStream, createInterface, createWriteStream
Start ==
    /\ pc = "start"
    /\ \E exists \in BOOLEAN :
        IF ~exists
        THEN /\ pc' = "exited"
             /\ exitCode' = 1
             /\ UNCHANGED <<opened, rlState, outState>>
        ELSE /\ pc' = "loop"
             /\ opened' = [opened EXCEPT !.in = @ + 1, !.out = @ + 1]
             /\ rlState' = "open"
             /\ outState' = "open"
             /\ UNCHANGED exitCode
    /\ UNCHANGED <<script, skipErrors, debug, input, output, headerProcessed,
                   vocalizedIdx, headerCells, lineNumber, cells, statusLine,
                   errors, offending, promptState, answers, answer>>
    /\ UNCHANGED <<csvVars, tokVars>>

\* Mutant: the header fields are compared after trimming.
HeaderIndexTrimmed(hc) ==
    IndexOf([i \in 1..Len(hc) |-> Trim(hc[i])], Vocalized)

\* headerCells.indexOf("vocalized")
HeaderIndex(hc) == IndexOf(hc, Vocalized)

\* The first line: the header.
ReadHeader ==
    /\ pc = "loop"
    /\ ~headerProcessed
    /\ \E rawLine \in NextLines :
        LET line == StripBOM(rawLine)
            hc == parseCsvLine(line)
            idx == HeaderIndex(hc)
        IN  /\ input' = Append(input, rawLine)
            /\ lineNumber' = lineNumber + 1
            /\ headerCells' = hc
            /\ vocalizedIdx' = idx
            /\ IF idx = 0
               THEN \* console.error(...); process.exit(1)
                    /\ pc' = "exited"
                    /\ exitCode' = 1
                    /\ UNCHANGED <<output, headerProcessed>>
               ELSE /\ output' = Append(output, joinCsvLine(Append(hc, Tiberian)))
                    /\ headerProcessed' = TRUE
                    /\ UNCHANGED <<pc, exitCode>>
    /\ UNCHANGED <<script, skipErrors, debug, cells, statusLine, errors, offending,
                   opened, rlState, outState, promptState, answers, answer>>
    /\ UNCHANGED <<csvVars, tokVars>>

\* if (line.trim() === "") continue
ReadBlank ==
    /\ pc = "loop"
    /\ headerProcessed
    /\ \E rawLine \in NextLines :
        /\ Trim(StripBOM(rawLine)) = <<>>
        /\ input' = Append(input, rawLine)
        /\ lineNumber' = lineNumber + 1
    /\ UNCHANGED <<script, skipErrors, debug, pc, output, headerProcessed,
                   vocalizedIdx, headerCells, cells, exitCode, statusLine, errors,
                   offending, opened, rlState, outState, promptState, answers, answer>>
    /\ UNCHANGED <<csvVars, tokVars>>

\* const cells = parseCsvLine(line); while (...) cells.push("")
RowCells(rawLine) == PadCells(parseCsvLine(StripBOM(rawLine)), Len(headerCells))

\* Mutant: the row is written without the transliteration field.
WriteRowWithoutTib(cs, tib) == output' = Append(output, joinCsvLine(cs))

\* joinCsvLine([...cells, tib]) written to outputStream
WriteRow(cs, tib) == output' = Append(output, joinCsvLine(Append(cs, tib)))

\* A data row whose vocalized field is empty or transliterates.
ReadRow ==
    /\ pc = "loop"
    /\ headerProcessed
    /\ \E rawLine \in NextLines :
        LET cs == RowCells(rawLine)
            heb == cs[vocalizedIdx]
        IN  /\ Trim(StripBOM(rawLine)) # <<>>
            /\ heb = <<>> \/ ~Rejects(heb)
            /\ input' = Append(input, rawLine)
            /\ lineNumber' = lineNumber + 1
            /\ WriteRow(cs, IF heb = <<>> THEN <<>> ELSE transliterate(heb))
    /\ UNCHANGED <<script, skipErrors, debug, pc, headerProcessed, vocalizedIdx,
                   headerCells, cells, exitCode, statusLine, errors, offending,
                   opened, rlState, outState, promptState, answers, answer>>
    /\ UNCHANGED <<csvVars, tokVars>>

\* Mutant: skip mode drops the failing row.
SkipPolicyDropsRow(cs) == UNCHANGED <<output, pc, cells, opened, promptState>>

\* if (skipErrors) { /* continue with empty transliteration */ }
SkipPolicy(cs) ==
    /\ WriteRow(cs, <<>>)
    /\ UNCHANGED <<pc, cells, opened, promptState>>

\* A data row whose vocalized field the capability rejects.
ReadRowFailure ==
    /\ pc = "loop"
    /\ headerProcessed
    /\ \E rawLine \in NextLines :
        LET cs == RowCells(rawLine)
            heb == cs[vocalizedIdx]
        IN  /\ Trim(StripBOM(rawLine)) # <<>>
            /\ heb # <<>> /\ Rejects(heb)
            /\ input' = Append(input, rawLine)
            /\ lineNumber' = lineNumber + 1
            /\ IF script = "ts"
               THEN \* no try/catch: main() rejects and nothing handles it
                    /\ pc' = "crashed"
                    /\ exitCode' = 1
                    /\ UNCHANGED <<output, cells, errors, offending, opened,
                                   promptState>>
               ELSE /\ errors' = errors + 1
                    /\ offending' = IF debug THEN findOffendingWord(heb) ELSE <<>>
                    /\ UNCHANGED exitCode
                    /\ IF skipErrors
                       THEN SkipPolicy(cs)
                       ELSE \* promptToContinue: createInterface, question
                            /\ pc' = "prompt"
                            /\ cells' = cs
                            /\ opened' = [opened EXCEPT !.prompt = @ + 1]
                            /\ promptState' = "open"
                            /\ UNCHANGED output
    /\ UNCHANGED <<script, skipErrors, debug, headerProcessed, vocalizedIdx,
                   headerCells, statusLine, rlState, outState, answers, answer>>
    /\ UNCHANGED <<csvVars, tokVars>>

\* What the operator may type at the prompt.
Answers == {<<"y">>, <<"y", "e", "s">>, <<" ", "Y", " ">>, <<"Y", "E", "S">>,
            <<"n">>, <<>>, <<"y", "y">>, <<"n", "o">>}

\* normalized === "y" || normalized === "yes"
Affirmative(typed) ==
    LET normalized == ToLowerCase(Trim(typed))
    IN  normalized = <<"y">> \/ normalized = <<"y", "e", "s">>

\* The question callback, then the rest of the loop body or the break.
AnswerPrompt ==
    /\ pc = "prompt"
    /\ \E typed \in Answers :
        /\ promptState' = "closed"
        /\ answers' = answers + 1
        /\ answer' = typed
        /\ IF Affirmative(typed)
           THEN /\ WriteRow(cells, <<>>)
                /\ pc' = "loop"
                /\ UNCHANGED <<exitCode, statusLine, rlState, outState>>
           ELSE \* process.exitCode = 1; break; outputStream.end(); ...
                /\ exitCode' = 1
                /\ rlState' = "closed"
                /\ outState' = "ended"
                /\ statusLine' = "Completed with errors"
                /\ pc' = "done"
                /\ UNCHANGED output
    /\ cells' = <<>>
    /\ UNCHANGED <<script, skipErrors, debug, input, headerProcessed, vocalizedIdx,
                   headerCells, lineNumber, errors, offending, opened>>
    /\ UNCHANGED <<csvVars, tokVars>>

\* The operator's input ends while the question is pending: the interface
\* closes and the question callback is never called, so the promise of
\* promptToContinue never settles, main() never resumes, and node leaves
\* with the exit code set so far once nothing is left to wait for.
PromptEndOfInput ==
    /\ pc = "prompt"
    /\ promptState' = "closed"
    /\ pc' = "unsettled"
    /\ UNCHANGED <<script, skipErrors, debug, input, output, headerProcessed,
                   vocalizedIdx, headerCells, lineNumber, cells, exitCode,
                   statusLine, errors, offending, opened, rlState, outState,
                   answers, answer>>
    /\ UNCHANGED <<csvVars, tokVars>>

\* The input is exhausted: outputStream.end(), wait for close, status line.
EndOfInput ==
    /\ pc = "loop"
    /\ rlState' = "closed"
    /\ outState' = "ended"
    /\ statusLine' = IF script = "mjs" /\ exitCode # 0
                     THEN "Completed with errors" ELSE "Wrote"
    /\ pc' = "done"
    /\ UNCHANGED <<script, skipErrors, debug, input, output, headerProcessed,
                   vocalizedIdx, headerCells, lineNumber, cells, exitCode, errors,
                   offending, opened, promptState, answers, answer>>
    /\ UNCHANGED <<csvVars, tokVars>>

Next ==
    \/ Start
    \/ ReadHeader
    \/ ReadBlank
    \/ ReadRow
    \/ ReadRowFailure
    \/ AnswerPrompt
    \/ PromptEndOfInput
    \/ EndOfInput

Spec == Init /\ [][Next]_vars

\* --------------------------------------------- the join/parse round trip
\* A row of fields is written with joinCsvLine and the line is read back
\* with parseCsvLine.
CsvFields == StringsUpTo(CsvAlphabet, MaxCellLen)
CsvRows == UNION {[1..n -> CsvFields] : n \in 1..MaxCells}

InitCsv ==
    /\ IdleRun /\ IdleTok
    /\ csvPc = "start"
    /\ csvCells \in CsvRows
    /\ csvLine = <<>>
    /\ csvBack = <<>>

JoinLine ==
    /\ csvPc = "start"
    /\ csvLine' = joinCsvLine(csvCells)
    /\ csvPc' = "joined"
    /\ UNCHANGED <<csvCells, csvBack>>
    /\ UNCHANGED <<runVars, tokVars>>

ParseLine ==
    /\ csvPc = "joined"
    /\ csvBack' = parseCsvLine(csvLine)
    /\ csvPc' = "parsed"
    /\ UNCHANGED <<csvCells, csvLine>>
    /\ UNCHANGED <<runVars, tokVars>>

NextCsv == JoinLine \/ ParseLine

SpecCsv == InitCsv /\ [][NextCsv]_vars

\* ------------------------------------------- the offending-token search
InitTok ==
    /\ IdleRun /\ IdleCsv
    /\ tokPc = "start"
    /\ tokHeb \in StringsUpTo(HebAlphabet, MaxHebLen)
    /\ tokWord = <<>>

\* const badWord = heb ? findOffendingWord(heb) : null
Probe ==
    /\ tokPc = "start"
    /\ tokWord' = IF tokHeb # <<>> THEN findOffendingWord(tokHeb) ELSE <<>>
    /\ tokPc' = "done"
    /\ UNCHANGED tokHeb
    /\ UNCHANGED <<runVars, csvVars>>

NextTok == Probe

SpecTok == InitTok /\ [][NextTok]_vars

\* ===================================================================
\* What the claims speak of, stated on lines rather than on parsed cells.
\* ===================================================================
DelimiterPositions(line) == {i \in 1..Len(line) : line[i] = Delimiter}

NumFields(line) == Cardinality(DelimiterPositions(line)) + 1

\* Position of the k-th delimiter; 0 before the first field, Len + 1 after
\* the last.
DelimiterAt(line, k) ==
    IF k = 0 THEN 0
    ELSE IF k > Cardinality(DelimiterPositions(line)) THEN Len(line) + 1
    ELSE CHOOSE p \in DelimiterPositions(line) :
             Cardinality({q \in DelimiterPositions(line) : q < p}) = k - 1

\* The k-th field of a line; the empty string past its last field.
FieldOf(line, k) ==
    IF k > NumFields(line) THEN <<>>
    ELSE SubSeq(line, DelimiterAt(line, k - 1) + 1, DelimiterAt(line, k) - 1)

HasField(line, f) == \E k \in 1..NumFields(line) : FieldOf(line, k) = f

\* The column of `vocalized` in a header line that has one.
ColumnOf(line) ==
    CHOOSE k \in 1..NumFields(line) :
        FieldOf(line, k) = Vocalized /\ \A j \in 1..(k - 1) : FieldOf(line, j) # Vocalized

Blank(line) == \A i \in 1..Len(line) : line[i] \in {" ", BOM}

IsDataRow(line) == ~Blank(line)

\* The non-blank lines after the header, in input order.
DataRows == SelectSeq(Tail(input), IsDataRow)

RECURSIVE Delimiters(_)
Delimiters(n) == IF n <= 0 THEN <<>> ELSE <<Delimiter>> \o Delimiters(n - 1)

\* A line right-padded with empty fields up to n fields.
Padded(line, n) == line \o Delimiters(n - NumFields(line))

IsPrefix(a, b) == Len(a) <= Len(b) /\ SubSeq(b, 1, Len(a)) = a

Max(a, b) == IF a >= b THEN a ELSE b

NotBOM(c) == c # BOM

\* A line with every U+FEFF removed.
WithoutBOM(line) == SelectSeq(line, NotBOM)

\* The appended field of a row whose vocalized field is f and transliterates.
Appended(f) == IF f = <<>> THEN <<>> ELSE transliterate(f)

\* -------------------------------------------------------------------- C1
\* C1 as stated: when the header line has a field equal to `vocalized` and
\* every non-empty vocalized field transliterates, the output is the input
\* header with `tiberian` appended, then one row per non-blank input row, in
\* order, each the input row (padded to header length) plus the
\* transliteration of its vocalized field (empty for an empty field).
C1_AsStated ==
    (/\ Len(input) >= 1
     /\ HasField(input[1], Vocalized)
     /\ \A i \in 1..Len(DataRows) :
            LET f == FieldOf(DataRows[i], ColumnOf(input[1]))
            IN  f = <<>> \/ ~Rejects(f))
    => /\ Len(output) = 1 + Len(DataRows)
       /\ output[1] = input[1] \o <<Delimiter>> \o Tiberian
       /\ \A i \in 1..Len(DataRows) :
            output[i + 1] =
                Padded(DataRows[i], NumFields(input[1])) \o <<Delimiter>>
                    \o Appended(FieldOf(DataRows[i], ColumnOf(input[1])))

\* C1 (amended): the same, with the header and every row taken with their
\* U+FEFF characters removed, which is how both scripts read and write them.
C1_OutputIsInputPlusColumn ==
    (/\ Len(input) >= 1
     /\ HasField(WithoutBOM(input[1]), Vocalized)
     /\ \A i \in 1..Len(DataRows) :
            LET f == FieldOf(WithoutBOM(DataRows[i]), ColumnOf(WithoutBOM(input[1])))
            IN  f = <<>> \/ ~Rejects(f))
    => /\ Len(output) = 1 + Len(DataRows)
       /\ output[1] = WithoutBOM(input[1]) \o <<Delimiter>> \o Tiberian
       /\ \A i \in 1..Len(DataRows) :
            output[i + 1] =
                Padded(WithoutBOM(DataRows[i]), NumFields(WithoutBOM(input[1])))
                    \o <<Delimiter>>
                    \o Appended(FieldOf(WithoutBOM(DataRows[i]),
                                        ColumnOf(WithoutBOM(input[1]))))

\* A finished run that wrote two rows in input order: one transliterated,
\* one with an empty vocalized field.
C1_Witness ==
    /\ pc = "done"
    /\ statusLine = "Wrote"
    /\ input = << <<"vocalized">>, <<"h">>, <<"|">> >>
    /\ output = << <<"vocalized", "|", "tiberian">>, <<"h", "|", "H">>, <<"|", "|">> >>

\* The header line and its vocalized column, as both scripts read them.
Header == WithoutBOM(input[1])
Column == ColumnOf(Header)

\* The vocalized field of a data row.
VocalizedOf(line) == FieldOf(WithoutBOM(line), Column)

\* A data row whose vocalized field the capability rejects.
RowRejected(line) == VocalizedOf(line) # <<>> /\ Rejects(VocalizedOf(line))

\* Such a row as it is emitted: padded, with an empty appended field.
EmptiedRow(line) == Padded(WithoutBOM(line), NumFields(Header)) \o <<Delimiter>>

LastLine == input[Len(input)]

\* This step read a data row that the capability rejects.
FailingRowRead ==
    /\ headerProcessed
    /\ Len(input') = Len(input) + 1
    /\ IsDataRow(input'[Len(input')])
    /\ RowRejected(input'[Len(input')])

\* -------------------------------------------------------------------- C2
\* C2 as stated: in either script a rejected row never crashes the process:
\* what was written stays written, the row is emitted with an empty
\* transliteration field and processing goes on, unless the operator aborts
\* at the prompt.
C2_AsStated ==
    [][/\ pc' # "crashed"
       /\ IsPrefix(output, output')
       /\ FailingRowRead =>
            \/ pc' = "loop" /\ output' = Append(output, EmptiedRow(input'[Len(input')]))
            \/ pc' = "prompt" /\ output' = output
       /\ pc = "prompt" =>
            \/ pc' = "loop" /\ output' = Append(output, EmptiedRow(LastLine))
            \/ pc' \in {"done", "unsettled"} /\ output' = output
      ]_vars

\* -------------------------------------------------------------------- C3
\* y or yes, surrounded by white space, in any case.
SaysYes(typed) ==
    \E i \in 1..Len(typed) : \E j \in i..Len(typed) :
        /\ \A k \in 1..Len(typed) : (k < i \/ k > j) => typed[k] = " "
        /\ [k \in 1..(j - i + 1) |-> LowerOf(typed[i + k - 1])]
               \in {<<"y">>, <<"y", "e", "s">>}

\* C3 as stated: at the prompt of a failing row exactly one answer is read; an
\* affirmative answer emits the row with an empty appended field and goes on;
\* any other answer, the end of the operator's input included, ends the run
\* with nothing more written and a non-zero completion status.
C3_AsStated ==
    [][pc = "prompt" =>
         \/ /\ answers' = answers + 1
            /\ SaysYes(answer')
            /\ pc' = "loop"
            /\ output' = Append(output, EmptiedRow(LastLine))
         \/ /\ answers' <= answers + 1
            /\ answers' = answers + 1 => ~SaysYes(answer')
            /\ pc' \in {"done", "exited", "unsettled"}
            /\ output' = output
            /\ exitCode' # 0
      ]_vars

\* -------------------------------------------------------------------- C4
\* C4: in skip mode every non-blank row whose vocalized field is rejected
\* yields exactly one output row with the appended field empty, no operator
\* input is read, and processing goes on to the end of the input, however
\* many rows fail and wherever.
C4_SkipModeEmitsEveryRow ==
    (script = "mjs" /\ skipErrors) =>
        /\ answers = 0
        /\ opened.prompt = 0
        /\ pc \in {"start", "loop", "done", "exited"}
        /\ headerProcessed =>
            /\ pc \in {"loop", "done"}
            /\ pc = "done" => outState = "ended"
            /\ Len(output) = 1 + Len(DataRows)
            /\ errors = Cardinality({i \in 1..Len(DataRows) : RowRejected(DataRows[i])})
            /\ \A i \in 1..Len(DataRows) :
                 RowRejected(DataRows[i]) => output[i + 1] = EmptiedRow(DataRows[i])

\* A skip-mode run that ended after two failing rows, both emitted.
C4_Witness ==
    /\ script = "mjs" /\ skipErrors
    /\ pc = "done"
    /\ errors = 2
    /\ output = << <<"vocalized", "|", "tiberian">>, <<"x", "|">>, <<"x", "|">> >>

\* -------------------------------------------------------------------- C5
\* C5: if the header line (U+FEFF removed) has no field exactly equal to
\* `vocalized`, the run ends at once with exit status 1 and nothing written;
\* if it has one, the run does not end at the header.
C5_HeaderMustNameVocalized ==
    Len(input) >= 1 =>
        IF HasField(Header, Vocalized)
        THEN /\ headerProcessed
             /\ pc # "exited"
             /\ Len(output) >= 1
        ELSE /\ pc = "exited"
             /\ exitCode = 1
             /\ output = <<>>
             /\ Len(input) = 1

\* A header whose only field is `vocalized` after a blank: not trimmed.
C5_Witness ==
    /\ pc = "exited"
    /\ exitCode = 1
    /\ input = << <<" ", "vocalized">> >>
    /\ output = <<>>

\* -------------------------------------------------------------------- C6
\* C6 as stated: a completed run reports `Wrote` (exit status 0) only when no
\* row failed, and reports completion with errors whenever a row failed, in
\* skip mode and in interactive mode alike.
C6_AsStated ==
    pc = "done" =>
        /\ statusLine = "Wrote" => errors = 0
        /\ exitCode = 0 => errors = 0
        /\ errors > 0 => statusLine = "Completed with errors"

\* -------------------------------------------------------------------- C8
\* C8 as stated: the input stream, the output stream and the operator channel
\* are each opened at most once per run and are released on every exit path:
\* end of input, operator decline, missing input file, missing header column.
C8_AsStated ==
    /\ opened.in <= 1
    /\ opened.out <= 1
    /\ opened.prompt <= 1
    /\ pc \in {"done", "exited"} =>
        /\ rlState \in {"unopened", "closed"}
        /\ outState \in {"unopened", "ended"}
        /\ promptState \in {"unopened", "closed"}

\* -------------------------------------------------------------------- C7
\* A field as the writer must render it: wrapped in quotes, embedded quotes
\* doubled, when it holds the delimiter; as it is otherwise.
RECURSIVE Doubled(_)
Doubled(f) ==
    IF f = <<>> THEN <<>>
    ELSE (IF f[1] = Quote THEN <<Quote, Quote>> ELSE <<f[1]>>) \o Doubled(Tail(f))

Rendered(f) ==
    IF \E i \in 1..Len(f) : f[i] = Delimiter
    THEN <<Quote>> \o Doubled(f) \o <<Quote>>
    ELSE f

RECURSIVE RenderedLine(_)
RenderedLine(fs) ==
    IF Len(fs) = 1 THEN Rendered(fs[1])
    ELSE Rendered(fs[1]) \o <<Delimiter>> \o RenderedLine(Tail(fs))

\* C7 as stated: a field holding the delimiter is written quoted with its
\* quotes doubled, and parsing the written line again gives back every field
\* and the number of fields.
C7_AsStated ==
    /\ csvPc \in {"joined", "parsed"} => csvLine = RenderedLine(csvCells)
    /\ csvPc = "parsed" =>
        /\ Len(csvBack) = Len(csvCells)
        /\ csvBack = csvCells

\* -------------------------------------------------------------------- C9
\* The row of the input that the i-th output row was written for.
RowOfOutput(i) == WithoutBOM(DataRows[i - 1])

\* C9 as stated: every output row has one field per header column plus
\* exactly one appended field, under the `tiberian` column, and keeps every
\* field of its input row, whether the row is shorter than, as long as, or
\* longer than the header.
C9_AsStated ==
    headerProcessed =>
        \A i \in 2..Len(output) :
            /\ NumFields(output[i]) = NumFields(Header) + 1
            /\ NumFields(output[i]) = NumFields(output[1])
            /\ \A k \in 1..NumFields(RowOfOutput(i)) :
                 FieldOf(output[i], k) = FieldOf(RowOfOutput(i), k)

\* C9 (amended): every output row keeps every field of its input row, is
\* right-padded with empty fields up to the header's length, and ends with
\* exactly one appended field, which is empty or the transliteration of the
\* row's vocalized field.  A row no longer than the header so has one field
\* per header column and the appended field under `tiberian`; a row longer
\* than the header has the appended field after its own last field.
C9_RowShape ==
    headerProcessed =>
        /\ Len(output) - 1 <= Len(DataRows)
        /\ NumFields(output[1]) = NumFields(Header) + 1
        /\ \A i \in 2..Len(output) :
            LET row == RowOfOutput(i)
                out == output[i]
                n == Max(NumFields(row), NumFields(Header))
            IN  /\ NumFields(out) = n + 1
                /\ \A k \in 1..NumFields(row) : FieldOf(out, k) = FieldOf(row, k)
                /\ \A k \in (NumFields(row) + 1)..n : FieldOf(out, k) = <<>>
                /\ FieldOf(out, n + 1) \in
                       {<<>>, transliterate(FieldOf(row, Column))}
                /\ NumFields(row) <= NumFields(Header) =>
                       NumFields(out) = NumFields(output[1])

\* A finished run whose one data row has more fields than the header.
C9_Witness ==
    /\ pc = "done"
    /\ input = << <<"vocalized">>, <<"h", "|", "h">> >>
    /\ output = << <<"vocalized", "|", "tiberian">>, <<"h", "|", "h", "|", "H">> >>

\* ------------------------------------------------------------------- C10
SeparatorClass == {" ", "-"}

\* heb[i..j] is a token: a maximal run of symbols outside the separator class.
IsToken(heb, i, j) ==
    /\ 1 <= i /\ i <= j /\ j <= Len(heb)
    /\ \A k \in i..j : heb[k] \notin SeparatorClass
    /\ i = 1 \/ heb[i - 1] \in SeparatorClass
    /\ j = Len(heb) \/ heb[j + 1] \in SeparatorClass

\* Where the tokens that fail on their own start.
FailingTokenStarts(heb) ==
    {i \in 1..Len(heb) :
        \E j \in i..Len(heb) : IsToken(heb, i, j) /\ Rejects(SubSeq(heb, i, j))}

\* C10: the token reported is the leftmost token that fails on its own; when
\* no token fails on its own, whether or not the whole field fails, none is
\* reported.
C10_FirstFailingToken ==
    tokPc = "done" =>
        IF FailingTokenStarts(tokHeb) = {}
        THEN tokWord = <<>>
        ELSE LET i == CHOOSE a \in FailingTokenStarts(tokHeb) :
                          \A b \in FailingTokenStarts(tokHeb) : a <= b
                 j == CHOOSE e \in i..Len(tokHeb) : IsToken(tokHeb, i, e)
             IN  tokWord = SubSeq(tokHeb, i, j)

\* A field the capability rejects as a whole (it begins with a hyphen), whose
\* first token passes and whose second token fails on its own.
C10_Witness ==
    /\ tokPc = "done"
    /\ tokHeb = <<"-", "h", " ", "x">>
    /\ Rejects(tokHeb)
    /\ tokWord = <<"x">>

====
